---- MODULE Spec2Model ----
(***************************************************************************)
(* A model of lightcurve.py (PESTO pipeline): the file-to-file stages that *)
(* clean, normalise, filter, smooth and correct a light curve.             *)
(*                                                                         *)
(* Every stage reads its whole input file with readlines(), and appends    *)
(* strings to its output file with open(path, "a").  The state is the      *)
(* file system (path -> text) plus the record of the last call (what it    *)
(* read, the strings it wrote, how it ended, what it printed).             *)
(*                                                                         *)
(* Text is a sequence of tokens: a tab, a newline, the decimal text of a   *)
(* number, or a word.  Numbers are exact rationals <<n, d>>; the rounding  *)
(* of binary floating point is not modelled.                               *)
(***************************************************************************)
EXTENDS Integers, Sequences, FiniteSets, TLC

VARIABLES files, last, ncalls

vars == <<files, last, ncalls>>

(***************************************************************************)
(* Bounds of the model.                                                    *)
(***************************************************************************)
MaxLen == 3

MaxCalls == 2

\* CPython keeps one shared object per int from -5 to SmallIntMax.
SmallIntMax == 256

\* The shortest file whose middle index is above SmallIntMax, and the
\* longest file a stage is run on.
LongLen == 2 * SmallIntMax + 2

MaxLines == LongLen

(***************************************************************************)
(* Exact rational arithmetic: a value is <<n, d>> with d > 0, gcd(n,d)=1.  *)
(***************************************************************************)
Abs(x) == IF x < 0 THEN -x ELSE x

Min(S) == CHOOSE x \in S : \A y \in S : x <= y

RECURSIVE Gcd(_, _)
Gcd(a, b) == IF b = 0 THEN a ELSE Gcd(b, a % b)

Rat(n, d) ==
    LET g == Gcd(Abs(n), Abs(d))
        s == IF d < 0 THEN -1 ELSE 1
    IN  <<(s * n) \div g, (s * d) \div g>>

RInt(k) == <<k, 1>>

\* The products are taken after the common factors are removed, so that the
\* intermediate values stay small.
RAdd(a, b) ==
    LET g == Gcd(a[2], b[2])
    IN  Rat(a[1] * (b[2] \div g) + b[1] * (a[2] \div g), (a[2] \div g) * b[2])

RSub(a, b) == RAdd(a, <<-b[1], b[2]>>)

RMul(a, b) ==
    LET g == Gcd(Abs(a[1]), b[2])
        h == Gcd(Abs(b[1]), a[2])
    IN  Rat((a[1] \div g) * (b[1] \div h), (a[2] \div h) * (b[2] \div g))

RDiv(a, b) ==
    IF b[1] = 0 THEN Rat(a[1] * b[2], 0)
    ELSE RMul(a, IF b[1] < 0 THEN <<-b[2], -b[1]>> ELSE <<b[2], b[1]>>)

RAbs(a) == <<Abs(a[1]), a[2]>>

RLt(a, b) ==
    LET g == Gcd(a[2], b[2])
    IN  a[1] * (b[2] \div g) < b[1] * (a[2] \div g)

RLe(a, b) ==
    LET g == Gcd(a[2], b[2])
    IN  a[1] * (b[2] \div g) <= b[1] * (a[2] \div g)

RGt(a, b) == RLt(b, a)

(***************************************************************************)
(* Text.  A string is a sequence of tokens.                                *)
(***************************************************************************)
TAB == <<"tab", 0, 0>>

NL == <<"nl", 0, 0>>

Num(n, d) == <<"num", n, d>>

Txt(k) == <<"txt", k, 0>>

\* The words that occur in the files.
FilterV == Txt(1)

\* str.split("\t"): the pieces between the tabs; the last piece keeps the
\* line's newline.
RECURSIVE split(_)
split(s) ==
    LET tabs == {i \in 1..Len(s) : s[i] = TAB}
    IN  IF tabs = {} THEN <<s>>
        ELSE LET k == Min(tabs)
             IN  <<SubSeq(s, 1, k - 1)>> \o split(SubSeq(s, k + 1, Len(s)))

\* float() ignores surrounding whitespace.
RECURSIVE strip(_)
strip(s) ==
    IF s # <<>> /\ s[1] = NL THEN strip(Tail(s))
    ELSE IF s # <<>> /\ s[Len(s)] = NL THEN strip(SubSeq(s, 1, Len(s) - 1))
    ELSE s

\* float(s) succeeds when s is the text of one number.
FloatOk(s) == Len(strip(s)) = 1 /\ strip(s)[1][1] = "num"

\* float(s): the value of the text (the same value for "5" and "5.0").
float(s) == IF FloatOk(s) THEN Rat(strip(s)[1][2], strip(s)[1][3]) ELSE RInt(0)

\* str(x) of a float: the one canonical text of the value.
str(v) == <<Num(v[1], v[2])>>

\* data[k] of Python, k counted from 0.  Python raises IndexError when
\* k >= len(data): every use is behind a test of Len(data) that gives that
\* status, and the value here is then never used.
Item(data, k) == IF k < Len(data) THEN data[k + 1] ELSE <<>>

\* "\t".join of data[from..to] (Python indices, both included).
RECURSIVE JoinTab(_, _, _)
JoinTab(data, from, to) ==
    IF from > to THEN <<>>
    ELSE IF from = to THEN Item(data, from)
    ELSE Item(data, from) \o <<TAB>> \o JoinTab(data, from + 1, to)

(***************************************************************************)
(* Files.  The content of a file is what readlines() returns: a sequence   *)
(* of lines, each ending with a newline except possibly the last.          *)
(***************************************************************************)
RECURSIVE Lines(_)
Lines(s) ==
    IF s = <<>> THEN <<>>
    ELSE LET nls == {i \in 1..Len(s) : s[i] = NL}
         IN  IF nls = {} THEN <<s>>
             ELSE LET k == Min(nls)
                  IN  <<SubSeq(s, 1, k)>> \o Lines(SubSeq(s, k + 1, Len(s)))

\* The content c1 followed by the content c2: an unterminated last line of
\* c1 runs into the first line of c2.
Cat(c1, c2) ==
    IF c1 = <<>> THEN c2
    ELSE IF c2 = <<>> THEN c1
    ELSE IF c1[Len(c1)][Len(c1[Len(c1)])] = NL THEN c1 \o c2
    ELSE SubSeq(c1, 1, Len(c1) - 1) \o <<c1[Len(c1)] \o c2[1]>> \o Tail(c2)

RECURSIVE CatRange(_, _, _)
CatRange(cs, lo, hi) ==
    IF lo > hi THEN <<>>
    ELSE IF lo = hi THEN cs[lo]
    ELSE LET mid == (lo + hi) \div 2
         IN  Cat(CatRange(cs, lo, mid), CatRange(cs, mid + 1, hi))

\* readlines() of an existing file.
readlines(fs, path) == fs[path]

\* The file system after open(path, "a"); write(s); close() for each string
\* s of written, in order.  A call that writes nothing creates no file.
WriteAll(fs, path, written) ==
    IF written = <<>> THEN fs
    ELSE LET old == IF path \in DOMAIN fs THEN fs[path] ELSE <<>>
             new == CatRange([i \in 1..Len(written) |-> Lines(written[i])],
                             1, Len(written))
         IN  [p \in DOMAIN fs \cup {path} |->
                 IF p = path THEN Cat(old, new) ELSE fs[p]]

(***************************************************************************)
(* A loop whose iterations may raise or return.  o[i] is what iteration i  *)
(* does provided the iterations before it completed: st = "ok" when it     *)
(* completes, w the string it writes (<<>> when it writes none).  The loop *)
(* ends at the first iteration that does not complete.                     *)
(***************************************************************************)
NonEmpty(s) == s # <<>>

RunLoop(o) ==
    LET bad == {i \in 1..Len(o) : o[i].st # "ok"}
        k == IF bad = {} THEN Len(o) + 1 ELSE Min(bad)
    IN  [st |-> IF bad = {} THEN "ok" ELSE o[k].st,
         written |-> SelectSeq([i \in 1..(k - 1) |-> o[i].w], NonEmpty)]

Raise(e) == [st |-> e, written |-> <<>>]

(***************************************************************************)
(* The record of a call: each stage is one action.                         *)
(***************************************************************************)
NoReport == <<"", 0, 0>>

NoArg == <<>>

NoCall ==
    [op |-> "none", src |-> "", dst |-> "", arg |-> NoArg, input |-> <<>>,
     st |-> "ok", written |-> <<>>, report |-> NoReport]

\* The stage op, called with the arguments arg, read tf_path, ended with
\* r.st, appended the strings r.written to output_path and printed r.report.
Call(op, tf_path, output_path, arg, r) ==
    /\ ncalls < MaxCalls
    /\ Len(files[tf_path]) <= MaxLines
    /\ files' = WriteAll(files, output_path, r.written)
    /\ last' = [op |-> op, src |-> tf_path, dst |-> output_path, arg |-> arg,
                input |-> files[tf_path], st |-> r.st,
                written |-> r.written, report |-> r.report]
    /\ ncalls' = ncalls + 1

(***************************************************************************)
(* Chronological normaliser.                                               *)
(***************************************************************************)
DayGap == 85000

DaySeconds == 86400

\* contents[0].split("\t")[3] as a float, read before the loop.
InitialTimeStatus(contents) ==
    IF contents = <<>> THEN "IndexError"
    ELSE IF Len(split(contents[1])) < 4 THEN "IndexError"
    ELSE IF ~FloatOk(Item(split(contents[1]), 3)) THEN "ValueError"
    ELSE "ok"

\* The test of both normalisers for an uncorrected day transition.
DayTransition(old_timestamp, time) ==
    RGt(RAbs(RSub(old_timestamp, time)), RInt(DayGap))

\* old_timestamp at iteration i, the iterations before it having completed.
OldTimestamp(contents, i) ==
    float(Item(split(contents[IF i = 1 THEN 1 ELSE i - 1]), 3))

\* The line with its time replaced by time - initial_time.
ZeroLine(data, initial_time) ==
    JoinTab(data, 0, 2) \o <<TAB>>
        \o str(RSub(float(Item(data, 3)), initial_time)) \o <<TAB>>
        \o JoinTab(data, 4, 12)

\* One iteration of the loop of set_initial_time_zero.
ZeroIteration(contents, i, initial_time) ==
    LET data == split(contents[i])
    IN  IF Len(data) < 4 THEN [st |-> "IndexError", w |-> <<>>]
        ELSE IF ~FloatOk(Item(data, 3)) THEN [st |-> "ValueError", w |-> <<>>]
        ELSE IF DayTransition(OldTimestamp(contents, i), float(Item(data, 3)))
             THEN [st |-> "day transition", w |-> <<>>]
        ELSE IF Len(data) < 13 THEN [st |-> "IndexError", w |-> <<>>]
        ELSE [st |-> "ok", w |-> ZeroLine(data, initial_time)]

ZeroRun(contents) ==
    IF InitialTimeStatus(contents) # "ok"
    THEN Raise(InitialTimeStatus(contents))
    ELSE LET initial_time == float(Item(split(contents[1]), 3))
         IN  RunLoop([i \in 1..Len(contents) |->
                         ZeroIteration(contents, i, initial_time)])

WarnReport(st) ==
    IF st = "day transition" THEN <<"Warning: day transition", 0, 0>> ELSE NoReport

set_initial_time_zero(tf_path, output_path) ==
    LET r == ZeroRun(readlines(files, tf_path))
    IN  Call("set_initial_time_zero", tf_path, output_path, NoArg,
             [st |-> r.st, written |-> r.written, report |-> WarnReport(r.st)])

\* One iteration of the reading loop of correct_day_transition.
RepairParse(line) ==
    LET data == split(line)
    IN  IF Len(data) < 4 THEN "IndexError"
        ELSE IF ~FloatOk(Item(data, 3)) THEN "ValueError"
        ELSE IF Len(data) < 13 THEN "IndexError"
        ELSE "ok"

\* index: the Python index of the record after the first wrap, or -1.
TransitionIndex(times, lower_limit, upper_limit) ==
    LET hits == {i \in 0..(Len(times) - 2) :
                    /\ RGt(Item(times, i), RInt(upper_limit))
                    /\ RLt(Item(times, i + 1), RInt(lower_limit))}
    IN  IF hits = {} THEN -1 ELSE Min(hits) + 1

\* The first Python index whose time is moved to the next day.
FirstShifted(index) == index + 1

\* times after the loop "for i in range(index+1, len(times))".
RepairedTimes(times, index) ==
    [k \in 1..Len(times) |->
        IF index >= 0 /\ k - 1 >= FirstShifted(index)
        THEN RAdd(times[k], RInt(DaySeconds)) ELSE times[k]]

RepairLine(data, time) ==
    JoinTab(data, 0, 2) \o <<TAB>> \o str(time) \o <<TAB>>
        \o JoinTab(data, 4, 12) \o <<NL>>

RepairRun(contents, lower_limit, upper_limit) ==
    LET parse == RunLoop([i \in 1..Len(contents) |->
                             [st |-> RepairParse(contents[i]), w |-> <<>>]])
        times == [i \in 1..Len(contents) |->
                     float(Item(split(contents[i]), 3))]
        index == TransitionIndex(times, lower_limit, upper_limit)
        fixed == RepairedTimes(times, index)
    IN  IF parse.st # "ok" THEN [st |-> parse.st, written |-> <<>>,
                                 report |-> NoReport]
        ELSE [st |-> "ok",
              written |-> [i \in 1..Len(contents) |->
                              RepairLine(split(contents[i]), fixed[i])],
              report |-> IF index < 0 THEN <<"No transition detected", 0, 0>>
                         ELSE NoReport]

correct_day_transition(tf_path, output_path, lower_limit, upper_limit) ==
    Call("correct_day_transition", tf_path, output_path,
         <<RInt(lower_limit), RInt(upper_limit)>>,
         RepairRun(readlines(files, tf_path), lower_limit, upper_limit))

\* "a is b" for two ints: the same object.  CPython shares one object per
\* int up to SmallIntMax; larger ints made by range() and int() are
\* distinct objects.
IntIs(a, b) == a = b /\ a <= SmallIntMax

Indexed(c) == [i \in 1..Len(c) |-> <<i - 1, c[i]>>]

Unindexed(c) == [k \in 1..Len(c) |-> c[k][2]]

\* quicksort of entries <<time, line>>; st = "RecursionError" when the
\* recursion does not end.
RECURSIVE quicksort(_)
quicksort(contents_to_sort) ==
    IF Len(contents_to_sort) < 2
    THEN [st |-> "ok", sorted |-> contents_to_sort]
    ELSE LET pivot_index == Len(contents_to_sort) \div 2
             pivot == Item(contents_to_sort, pivot_index)[1]
             less == Unindexed(SelectSeq(Indexed(contents_to_sort),
                         LAMBDA e : /\ ~IntIs(e[1], pivot_index)
                                    /\ RLe(e[2][1], pivot)))
             more == Unindexed(SelectSeq(Indexed(contents_to_sort),
                         LAMBDA e : /\ ~IntIs(e[1], pivot_index)
                                    /\ ~RLe(e[2][1], pivot)))
         IN  IF Len(less) = Len(contents_to_sort)
             THEN [st |-> "RecursionError", sorted |-> <<>>]
             ELSE LET less_sorted == quicksort(less)
                      more_sorted == quicksort(more)
                  IN  IF less_sorted.st # "ok" THEN less_sorted
                      ELSE IF more_sorted.st # "ok" THEN more_sorted
                      ELSE [st |-> "ok",
                            sorted |-> less_sorted.sorted
                                \o <<Item(contents_to_sort, pivot_index)>>
                                \o more_sorted.sorted]

\* SortIteration with old_timestamp never updated: every time is compared
\* with the time of the first row.
SortIterationStale(contents, i) ==
    LET data == split(contents[i])
    IN  IF Len(data) < 4 THEN "IndexError"
        ELSE IF ~FloatOk(Item(data, 3)) THEN "ValueError"
        ELSE IF DayTransition(OldTimestamp(contents, 1), float(Item(data, 3)))
             THEN "day transition"
        ELSE "ok"

\* One iteration of the reading loop of sort_by_timestamp.
SortIteration(contents, i) ==
    LET data == split(contents[i])
    IN  IF Len(data) < 4 THEN "IndexError"
        ELSE IF ~FloatOk(Item(data, 3)) THEN "ValueError"
        ELSE IF DayTransition(OldTimestamp(contents, i), float(Item(data, 3)))
             THEN "day transition"
        ELSE "ok"

SortRun(contents) ==
    IF InitialTimeStatus(contents) # "ok"
    THEN Raise(InitialTimeStatus(contents))
    ELSE LET parse == RunLoop([i \in 1..Len(contents) |->
                                 [st |-> SortIteration(contents, i),
                                  w |-> <<>>]])
             contents_sorted ==
                 quicksort([i \in 1..Len(contents) |->
                     <<float(Item(split(contents[i]), 3)), contents[i]>>])
         IN  IF parse.st # "ok" THEN Raise(parse.st)
             ELSE IF contents_sorted.st # "ok" THEN Raise(contents_sorted.st)
             ELSE [st |-> "ok",
                   written |-> Unindexed(contents_sorted.sorted)]

sort_by_timestamp(tf_path, output_path) ==
    LET r == SortRun(readlines(files, tf_path))
    IN  Call("sort_by_timestamp", tf_path, output_path, NoArg,
             [st |-> r.st, written |-> r.written, report |-> WarnReport(r.st)])

(***************************************************************************)
(* Outlier filter.                                                         *)
(***************************************************************************)
RECURSIVE RSum(_, _)
RSum(xs, i) == IF i > Len(xs) THEN RInt(0) ELSE RAdd(xs[i], RSum(xs, i + 1))

\* statistics.mean of a non-empty list.
mean(xs) == RDiv(RSum(xs, 1), RInt(Len(xs)))

\* The square of statistics.stdev(xs), for at least two values: the sum of
\* the squared deviations from the mean over N - 1.
variance(xs) ==
    RDiv(RSum([i \in 1..Len(xs) |->
                  RMul(RSub(xs[i], mean(xs)), RSub(xs[i], mean(xs)))], 1),
         RInt(Len(xs) - 1))

\* x < c * sqrt(v) for v >= 0, decided on the squares (the root of a
\* rational is not a rational).
LtRoot(x, c, v) ==
    IF RLe(RInt(0), c)
    THEN RLt(x, RInt(0)) \/ RLt(RMul(x, x), RMul(RMul(c, c), v))
    ELSE RLt(x, RInt(0)) /\ RLt(RMul(RMul(c, c), v), RMul(x, x))

\* The limits included: lower_lim <= d and d <= upper_lim (sig >= 0).
WithinLimitsClosed(d, av, sig, var) ==
    \/ /\ LtRoot(RSub(av, d), sig, var)
       /\ LtRoot(RSub(d, av), sig, var)
    \/ RMul(RSub(d, av), RSub(d, av)) = RMul(RMul(sig, sig), var)

\* lower_lim < d and d < upper_lim, with lower_lim = av - sig * stdev and
\* upper_lim = av + sig * stdev.
WithinLimits(d, av, sig, var) ==
    /\ LtRoot(RSub(av, d), sig, var)
    /\ LtRoot(RSub(d, av), sig, var)

\* One iteration of the reading loop of correct_outliers.
OutlierParse(line) ==
    LET data == split(line)
    IN  IF Len(data) < 9 THEN "IndexError"
        ELSE IF ~FloatOk(Item(data, 8)) THEN "ValueError"
        ELSE "ok"

OutlierRun(contents, sig) ==
    LET parse == RunLoop([i \in 1..Len(contents) |->
                             [st |-> OutlierParse(contents[i]), w |-> <<>>]])
        photon_counts == [i \in 1..Len(contents) |->
                             float(Item(split(contents[i]), 8))]
        photon_count_differences ==
            [i \in 1..(Len(contents) - 1) |->
                RSub(photon_counts[i + 1], photon_counts[i])]
        av == mean(photon_count_differences)
        var == variance(photon_count_differences)
        kept == [i \in 1..Len(photon_count_differences) |->
                    WithinLimits(photon_count_differences[i], av, sig, var)]
        counter == Cardinality({i \in 1..Len(kept) : ~kept[i]})
    IN  IF parse.st # "ok"
        THEN [st |-> parse.st, written |-> <<>>, report |-> NoReport]
        ELSE IF Len(photon_count_differences) < 2
        THEN [st |-> "StatisticsError", written |-> <<>>, report |-> NoReport]
        ELSE [st |-> "ok",
              written |-> <<contents[1]>> \o
                  SelectSeq([i \in 1..Len(kept) |->
                                IF kept[i] THEN contents[i + 1] ELSE <<>>],
                            NonEmpty),
              report |-> <<"Lines removed", counter, 0>>]

correct_outliers(tf_path, output_path, sig) ==
    Call("correct_outliers", tf_path, output_path, <<sig>>,
         OutlierRun(readlines(files, tf_path), sig))

(***************************************************************************)
(* Smoother.                                                               *)
(***************************************************************************)
\* "d0,d1,...,d12 = ([] for i in range(10))": the number of names on the
\* left and the number of lists the generator yields.
UnpackTargets == 13

GeneratorLen == 10

\* x rounded to the nearest multiple of 1/scale, halves to even ("%.2f"
\* with scale 100, "%.1f" with 10, "%.0f" with 1).
Format(x, scale) ==
    LET n == x[1] * scale
        q == n \div x[2]
        r == n % x[2]
    IN  IF 2 * r > x[2] \/ (2 * r = x[2] /\ q % 2 = 1)
        THEN Rat(q + 1, scale) ELSE Rat(q, scale)

\* One iteration of the reading loop of smooth: twelve floats and the filter.
SmoothParse(line) ==
    LET data == split(line)
        bad == {k \in 0..11 : k >= Len(data) \/ ~FloatOk(Item(data, k))}
    IN  IF bad # {} /\ Min(bad) >= Len(data) THEN "IndexError"
        ELSE IF bad # {} THEN "ValueError"
        ELSE IF Len(data) < 13 THEN "IndexError"
        ELSE "ok"

\* The list dk: column k of the file.
Column(contents, k) ==
    [i \in 1..Len(contents) |-> float(Item(split(contents[i]), k))]

\* nsdk[i] (i from 0): the mean of column k over the rows i, i+1, i+2.
Smoothed(contents, k, i) ==
    RDiv(RAdd(RAdd(Column(contents, k)[i + 1], Column(contents, k)[i + 2]),
              Column(contents, k)[i + 3]), RInt(3))

\* The line of the smoothed record i (from 0); its filter is nsd12[0].
SmoothLine(contents, i) ==
    JoinTab([k \in 1..12 |-> str(Smoothed(contents, k - 1, i))], 0, 11)
        \o <<TAB>> \o Item(split(contents[1]), 12) \o <<NL>>

SmoothedHeader == Txt(3)

\* smooth after its lists are made.  threshold = -1 stands for "not given".
SmoothBody(contents, same_path, threshold, factor) ==
    LET parse == RunLoop([i \in 1..Len(contents) |->
                             [st |-> SmoothParse(contents[i]), w |-> <<>>]])
        nsmooth == IF Len(contents) < 2 THEN 0 ELSE Len(contents) - 2
        t_dif == [i \in 1..(IF nsmooth < 1 THEN 0 ELSE nsmooth - 1) |->
                     RSub(Smoothed(contents, 3, i), Smoothed(contents, 3, i - 1))]
        thr == IF threshold = RInt(-1)
               THEN RDiv(RMul(factor, RSum(t_dif, 1)), RInt(Len(t_dif)))
               ELSE threshold
        header == IF same_path
                  THEN << <<SmoothedHeader>> \o str(Format(thr, 100)) \o <<NL>> >>
                  ELSE <<>>
        kept == {i \in 1..Len(t_dif) : RLe(t_dif[i], thr)}
        counter == Cardinality(kept)
    IN  IF parse.st # "ok"
        THEN [st |-> parse.st, written |-> <<>>, report |-> NoReport]
        ELSE IF threshold = RInt(-1) /\ Len(t_dif) = 0
        THEN [st |-> "ZeroDivisionError", written |-> <<>>, report |-> NoReport]
        ELSE IF nsmooth < 1
        THEN [st |-> "IndexError", written |-> header, report |-> NoReport]
        ELSE [st |-> "ok",
              written |-> header \o <<SmoothLine(contents, 0)>> \o
                  SelectSeq([i \in 1..Len(t_dif) |->
                                IF i \in kept THEN SmoothLine(contents, i)
                                ELSE <<>>], NonEmpty),
              report |-> <<"The smooth file contains", counter,
                           Format(RMul(RInt(100),
                               RSub(RInt(1), Rat(counter, Len(contents)))), 1)[1]>>]

\* smooth: the lists are made by unpacking a generator of GeneratorLen
\* lists into UnpackTargets names, right after the file is read.
SmoothRun(contents, same_path, threshold, factor) ==
    IF GeneratorLen # UnpackTargets
    THEN [st |-> "ValueError", written |-> <<>>, report |-> NoReport]
    ELSE SmoothBody(contents, same_path, threshold, factor)

smooth(tf_path, output_path, threshold, factor) ==
    Call("smooth", tf_path, output_path, <<threshold, factor>>,
         SmoothRun(readlines(files, tf_path), tf_path = output_path,
                   threshold, factor))


(***************************************************************************)
(* Weather database and weather correction.                                *)
(***************************************************************************)
\* The line "ALT_CHANGE" between two alternates of the database.
AltChange == Txt(2)

\* 'ALT' in s.
ContainsALT(s) == \E i \in 1..Len(s) : s[i] = AltChange

\* The first of the fields ks (Python indices, in the order the code reads
\* them) of data that cannot be read as a float, as a status.
FloatsStatus(data, ks) ==
    LET bad == {n \in 1..Len(ks) :
                   ks[n] >= Len(data) \/ ~FloatOk(Item(data, ks[n]))}
    IN  IF bad = {} THEN "ok"
        ELSE IF ks[Min(bad)] >= Len(data) THEN "IndexError"
        ELSE "ValueError"

\* max over the fluxes, from pc_largest = 0.
RECURSIVE Largest(_, _)
Largest(pc, i) ==
    IF i > Len(pc) THEN RInt(0)
    ELSE IF RGt(pc[i], Largest(pc, i + 1)) THEN pc[i] ELSE Largest(pc, i + 1)

\* The body of the loop of build_weather_database for one file, the last of
\* tf_paths or not: the rows t, x, y, pc, f and the separator.
BuildEntrySet(contents_alt, is_last) ==
    LET parse == RunLoop([i \in 1..Len(contents_alt) |->
                     [st |-> FloatsStatus(split(contents_alt[i]), <<3, 5, 6, 8>>),
                      w |-> <<>>]])
        col(k) == [i \in 1..Len(contents_alt) |->
                      float(Item(split(contents_alt[i]), k))]
        pc == col(8)
        pc_largest == Largest(pc, 1)
        row(j) == str(col(3)[j]) \o <<TAB>> \o str(col(5)[j]) \o <<TAB>>
                      \o str(col(6)[j]) \o <<TAB>> \o str(pc[j]) \o <<TAB>>
                      \o str(RDiv(pc_largest, pc[j])) \o <<NL>>
    IN  IF parse.st # "ok" THEN Raise(parse.st)
        ELSE IF \E j \in 1..Len(pc) : pc[j] = RInt(0)
        THEN Raise("ZeroDivisionError")
        ELSE [st |-> "ok",
              written |-> [j \in 1..Len(pc) |-> row(j)]
                  \o (IF is_last THEN <<>> ELSE << <<AltChange, NL>> >>)]

\* The files from the i-th on (i from 0); the loop ends at the first file
\* that raises, with the rows of the files before it written.
RECURSIVE BuildFrom(_, _)
BuildFrom(inputs, i) ==
    IF i >= Len(inputs) THEN [st |-> "ok", written |-> <<>>]
    ELSE LET entry == BuildEntrySet(Item(inputs, i),
                                    IntIs(i, Len(inputs) - 1))
             rest == BuildFrom(inputs, i + 1)
         IN  IF entry.st # "ok" THEN entry
             ELSE [st |-> rest.st, written |-> entry.written \o rest.written]

build_weather_database(db_path, tf_paths) ==
    LET inputs == [i \in 1..Len(tf_paths) |-> readlines(files, tf_paths[i])]
        r == BuildFrom(inputs, 0)
    IN  /\ ncalls < MaxCalls
        /\ files' = WriteAll(files, db_path, r.written)
        /\ last' = [op |-> "build_weather_database", src |-> tf_paths,
                    dst |-> db_path, arg |-> NoArg, input |-> inputs,
                    st |-> r.st, written |-> r.written, report |-> NoReport]
        /\ ncalls' = ncalls + 1

\* One iteration of the loop that reads the database.
DbParse(line) ==
    IF ContainsALT(Item(split(line), 0)) THEN "ok"
    ELSE FloatsStatus(split(line), <<0, 1, 2, 3, 4>>)

\* The list [ts, xs, ys, pcs, fs] of the database lines lo..hi.
AltOf(contents_db, lo, hi) ==
    [k \in 1..5 |-> [i \in 1..(hi - lo + 1) |->
        float(Item(split(contents_db[lo + i - 1]), k - 1))]]

\* alts: the lists of the lines between the separators, from line lo on;
\* the list after the last separator is appended at the end.
RECURSIVE AltsFrom(_, _)
AltsFrom(contents_db, lo) ==
    LET seps == {i \in lo..Len(contents_db) :
                    ContainsALT(Item(split(contents_db[i]), 0))}
    IN  IF seps = {} THEN <<AltOf(contents_db, lo, Len(contents_db))>>
        ELSE <<AltOf(contents_db, lo, Min(seps) - 1)>>
                 \o AltsFrom(contents_db, Min(seps) + 1)

\* The inner loop without the test of the gap.
BracketOfAnyGap(alt, time, gap_threshold) ==
    LET t == Item(alt, 0)
        bracket(i) == RLe(Item(t, i), time) /\ RGt(Item(t, i + 1), time)
        later(i) == RGt(Item(t, i), time) /\ RGt(Item(t, i + 1), time)
        stops == {i \in 0..(Len(t) - 2) : bracket(i) \/ later(i)}
    IN  IF stops = {} THEN -1
        ELSE IF bracket(Min(stops)) THEN Min(stops)
        ELSE -1

\* The inner loop over i for one alt and one source time: the first i at
\* which one of the two tests holds ends the loop; it gives a factor when
\* it is the bracket test and the gap is within gap_threshold.
BracketOf(alt, time, gap_threshold) ==
    LET t == Item(alt, 0)
        bracket(i) == RLe(Item(t, i), time) /\ RGt(Item(t, i + 1), time)
        later(i) == RGt(Item(t, i), time) /\ RGt(Item(t, i + 1), time)
        stops == {i \in 0..(Len(t) - 2) : bracket(i) \/ later(i)}
    IN  IF stops = {} THEN -1
        ELSE IF /\ bracket(Min(stops))
                /\ RLe(RAbs(RSub(Item(t, Min(stops) + 1), Item(t, Min(stops)))),
                       gap_threshold)
        THEN Min(stops)
        ELSE -1

\* Interpolate with b taken at the end of the bracket.
InterpolateFromNext(alt, i, time) ==
    LET m == RDiv(RSub(Item(Item(alt, 4), i + 1), Item(Item(alt, 4), i)),
                  RSub(Item(Item(alt, 0), i + 1), Item(Item(alt, 0), i)))
        b == RSub(Item(Item(alt, 4), i), RMul(m, Item(Item(alt, 0), i + 1)))
    IN  RAdd(RMul(m, time), b)

\* m * time + b on the bracket (i, i+1) of alt.
Interpolate(alt, i, time) ==
    LET m == RDiv(RSub(Item(Item(alt, 4), i + 1), Item(Item(alt, 4), i)),
                  RSub(Item(Item(alt, 0), i + 1), Item(Item(alt, 0), i)))
        b == RSub(Item(Item(alt, 4), i), RMul(m, Item(Item(alt, 0), i)))
    IN  RAdd(RMul(m, time), b)

\* The square root of a rational that is the square of a rational.
RootMax == 1000

Root(q) ==
    <<CHOOSE r \in 0..RootMax : r * r = q[1],
      CHOOSE r \in 0..RootMax : r * r = q[2]>>

\* alt_distances entry: the "x" and "y" of the bracket are the means of
\* alt[2] and alt[3], compared with source[2][j] and source[3][j].
Distance(alt, i, source, j) ==
    LET x == RDiv(RAdd(Item(Item(alt, 2), i), Item(Item(alt, 2), i + 1)), RInt(2))
        y == RDiv(RAdd(Item(Item(alt, 3), i), Item(Item(alt, 3), i + 1)), RInt(2))
        dx == RSub(Item(Item(source, 2), j), x)
        dy == RSub(Item(Item(source, 3), j), y)
    IN  Root(RAdd(RMul(dx, dx), RMul(dy, dy)))

\* The brackets with the first alt alone taken into account.
BracketsOfFirstAlt(alts, source, j, gap_threshold) ==
    [a \in 1..Len(alts) |->
        IF a > 1 THEN -1
        ELSE BracketOf(alts[a], Item(Item(source, 0), j), gap_threshold)]

\* The bracket found in each alt for the source record j (from 0); -1 when
\* the alt gives no factor.
Brackets(alts, source, j, gap_threshold) ==
    [a \in 1..Len(alts) |->
        BracketOf(alts[a], Item(Item(source, 0), j), gap_threshold)]

\* The alts that give a factor for the source record j, in order.
Contributing(alts, source, j, gap_threshold) ==
    LET found == Brackets(alts, source, j, gap_threshold)
    IN  SelectSeq([a \in 1..Len(alts) |-> a], LAMBDA a : found[a] >= 0)

\* source_factor of the record j: [st, f].
SourceFactor(alts, source, j, weighted, gap_threshold) ==
    LET time == Item(Item(source, 0), j)
        found == Brackets(alts, source, j, gap_threshold)
        used == SelectSeq([a \in 1..Len(alts) |-> a],
                          LAMBDA a : found[a] >= 0)
        alt_factors == [n \in 1..Len(used) |->
            Interpolate(alts[used[n]], found[used[n]], time)]
        alt_distances == [n \in 1..Len(used) |->
            Distance(alts[used[n]], found[used[n]], source, j)]
        alt_weights == [n \in 1..Len(used) |-> RDiv(RInt(1), alt_distances[n])]
        sum_weights == RSum(alt_weights, 1)
    IN  IF Len(used) < 1 THEN [st |-> "continue", f |-> RInt(0)]
        ELSE IF ~weighted
        THEN [st |-> "ok", f |-> RDiv(RSum(alt_factors, 1), RInt(Len(used)))]
        ELSE IF \E n \in 1..Len(used) : alt_distances[n] = RInt(0)
        THEN [st |-> "ZeroDivisionError", f |-> RInt(0)]
        ELSE [st |-> "ok",
              f |-> RSum([n \in 1..Len(used) |->
                            RMul(RDiv(alt_weights[n], sum_weights),
                                 alt_factors[n])], 1)]

WeatherRun(contents_db, contents, weighted, gap_threshold) ==
    LET parse_db == RunLoop([i \in 1..Len(contents_db) |->
                        [st |-> DbParse(contents_db[i]), w |-> <<>>]])
        alts == AltsFrom(contents_db, 1)
        parse == RunLoop([i \in 1..Len(contents) |->
                     [st |-> FloatsStatus(split(contents[i]),
                                          <<3, 5, 6, 8, 9>>),
                      w |-> <<>>]])
        source == [k \in 1..5 |-> [i \in 1..Len(contents) |->
                      float(Item(split(contents[i]), <<3, 5, 6, 8, 9>>[k]))]]
        factors == [i \in 1..Len(contents) |->
                       SourceFactor(alts, source, i - 1, weighted,
                                    gap_threshold)]
        loop == RunLoop([i \in 1..Len(contents) |->
                    [st |-> IF factors[i].st = "continue" THEN "ok"
                            ELSE factors[i].st,
                     w |-> IF factors[i].st = "ok"
                           THEN JoinTab(split(contents[i]), 0, 7) \o <<TAB>>
                                \o str(RMul(factors[i].f, source[4][i]))
                                \o <<TAB>>
                                \o str(RMul(factors[i].f, source[5][i]))
                                \o <<NL>>
                           ELSE <<>>]])
        found == <<"alternate sources were found", Len(alts), 0>>
    IN  IF parse_db.st # "ok"
        THEN [st |-> parse_db.st, written |-> <<>>, report |-> NoReport]
        ELSE IF parse.st # "ok"
        THEN [st |-> parse.st, written |-> <<>>, report |-> found]
        ELSE [st |-> loop.st, written |-> loop.written, report |-> found]

correct_weather(db_path, tf_path, output_path, weighted, gap_threshold) ==
    Call("correct_weather", tf_path, output_path,
         <<readlines(files, db_path), weighted, gap_threshold>>,
         WeatherRun(readlines(files, db_path), readlines(files, tf_path),
                    weighted, gap_threshold))

(***************************************************************************)
(* Relative photometry.                                                    *)
(***************************************************************************)
\* abs(ts_s[cs] - ts_a[ca]) <= threshold.
MatchesClosed(threshold, ts_s, ts_a, cs, ca) ==
    RLe(RAbs(RSub(Item(ts_s, cs), Item(ts_a, ca))), threshold)

\* abs(ts_s[cs] - ts_a[ca]) < threshold.
Matches(threshold, ts_s, ts_a, cs, ca) ==
    RLt(RAbs(RSub(Item(ts_s, cs), Item(ts_a, ca))), threshold)

\* The pointers stay where they are when the source is at its last index
\* and is not the later one.
AdvanceUnlessLast(ts_s, ts_a, cs, ca) ==
    IF RGt(Item(ts_s, cs), Item(ts_a, ca)) THEN <<cs, ca + 1>>
    ELSE IF cs = Len(ts_s) - 1 THEN <<cs, ca>>
    ELSE <<cs + 1, ca>>

\* The pointers <<cs, ca>> after a comparison, matched or not.
Advance(ts_s, ts_a, cs, ca) ==
    IF RGt(Item(ts_s, cs), Item(ts_a, ca)) \/ cs = Len(ts_s) - 1
    THEN <<cs, ca + 1>>
    ELSE <<cs + 1, ca>>

\* The iterations i, i+1, ... of the walk, from the pointers cs and ca:
\* the pairs <<cs, ca>> it compares, and how it ends.  Reading ts_s[cs] or
\* ts_a[ca] past the end of the list raises IndexError.
RECURSIVE Compare(_, _, _, _, _)
Compare(ts_s, ts_a, i, cs, ca) ==
    IF i >= Len(ts_s) + Len(ts_a) THEN [st |-> "ok", pairs |-> <<>>]
    ELSE IF cs >= Len(ts_s) \/ ca >= Len(ts_a)
    THEN [st |-> "IndexError", pairs |-> <<>>]
    ELSE LET next == Advance(ts_s, ts_a, cs, ca)
             rest == IF next[2] = Len(ts_a) - 1 /\ next[1] = Len(ts_s) - 1
                     THEN [st |-> "ok", pairs |-> <<>>]
                     ELSE Compare(ts_s, ts_a, i + 1, next[1], next[2])
         IN  [st |-> rest.st, pairs |-> <<<<cs, ca>>>> \o rest.pairs]

\* The line written for the source line and the alt line of a match.
PhotometryLine(line_s, line_a) ==
    LET data == split(line_s)
        alt == split(line_a)
        fl(k) == str(float(Item(data, k)))
    IN  fl(0) \o <<TAB>> \o fl(1) \o <<TAB>> \o fl(2) \o <<TAB>> \o fl(3)
            \o <<TAB>> \o fl(4) \o <<TAB>> \o fl(5) \o <<TAB>> \o fl(6)
            \o <<TAB>> \o fl(7) \o <<TAB>>
            \o str(RSub(float(Item(data, 8)), float(Item(alt, 8))))
            \o <<TAB>>
            \o str(RAdd(float(Item(data, 9)), float(Item(alt, 9))))
            \o <<NL>>

PhotometryRun(threshold, contents_source, contents_alt) ==
    LET parse_s == RunLoop([i \in 1..Len(contents_source) |->
                       [st |-> FloatsStatus(split(contents_source[i]),
                                            <<3, 8, 9, 0, 1, 2, 4, 5, 6, 7>>),
                        w |-> <<>>]])
        parse_a == RunLoop([i \in 1..Len(contents_alt) |->
                       [st |-> FloatsStatus(split(contents_alt[i]),
                                            <<3, 8, 9>>),
                        w |-> <<>>]])
        ts_s == [i \in 1..Len(contents_source) |->
                    float(Item(split(contents_source[i]), 3))]
        ts_a == [i \in 1..Len(contents_alt) |->
                    float(Item(split(contents_alt[i]), 3))]
        walk == Compare(ts_s, ts_a, 0, 0, 0)
        matched == SelectSeq(walk.pairs,
                       LAMBDA p : Matches(threshold, ts_s, ts_a, p[1], p[2]))
    IN  IF parse_s.st # "ok"
        THEN [st |-> parse_s.st, written |-> <<>>, report |-> NoReport]
        ELSE IF parse_a.st # "ok"
        THEN [st |-> parse_a.st, written |-> <<>>, report |-> NoReport]
        ELSE [st |-> walk.st,
              written |-> [k \in 1..Len(matched) |->
                  PhotometryLine(contents_source[matched[k][1] + 1],
                                 contents_alt[matched[k][2] + 1])],
              report |-> NoReport]

relative_photometry(threshold, source_path, alt_path, output_path) ==
    Call("relative_photometry", source_path, output_path,
         <<threshold, readlines(files, alt_path)>>,
         PhotometryRun(threshold, readlines(files, source_path),
                       readlines(files, alt_path)))


(***************************************************************************)
(* Cleaning filters.                                                       *)
(***************************************************************************)
\* The test with the upper limit included.
KeptUpTo15(data) == Len(data) > 12 /\ Len(data) <= 15

\* len(data) > 12 and len(data) < 15.
Kept(data) == Len(data) > 12 /\ Len(data) < 15

\* The loop of clean_broken_lines: split() raises on no line.
CleanRun(contents) ==
    [st |-> "ok",
     written |-> SelectSeq(contents, LAMBDA line : Kept(split(line))),
     report |-> NoReport]

clean_broken_lines(tf_path, output_path) ==
    Call("clean_broken_lines", tf_path, output_path, NoArg,
         CleanRun(readlines(files, tf_path)))

\* The flag "NO SOURCE" of a row without a detected source.
NoSource == Txt(5)

\* The line "Cleaned data (NO SOURCES error removed) appended below:".
CleanedHeader == Txt(6)

\* "SOURCE" in line: the flag, and the header line too (it has the word
\* "SOURCES").
ContainsSOURCE(line) ==
    \E i \in 1..Len(line) : line[i] \in {NoSource, CleanedHeader}

\* The body of clean_no_source with an output path given: the header when
\* the output is the input file, then the lines without "SOURCE".
NoSourceRun(contents, same_path) ==
    [st |-> "ok",
     written |-> (IF same_path THEN << <<CleanedHeader, NL>> >> ELSE <<>>)
                     \o SelectSeq(contents, LAMBDA line : ~ContainsSOURCE(line)),
     report |-> NoReport]

clean_no_source(tf_path, output_path) ==
    Call("clean_no_source", tf_path, output_path, NoArg,
         NoSourceRun(readlines(files, tf_path), tf_path = output_path))

\* The test with the limit included.
BelowStripClosed(flux, hard_limit) == RLe(flux, hard_limit)

\* float(data[8]) < strip (hard_limit is the parameter strip).
BelowStrip(flux, hard_limit) == RLt(flux, hard_limit)

\* float(data[3]) < tmin or float(data[3]) > tmax.
OutsideWindow(time, tmin, tmax) == RLt(time, tmin) \/ RGt(time, tmax)

\* One iteration of the loop of strip_above.
StripIteration(line, hard_limit, tmin, tmax) ==
    LET data == split(line)
    IN  IF Len(data) < 4 THEN [st |-> "IndexError", w |-> <<>>]
        ELSE IF ~FloatOk(Item(data, 3)) THEN [st |-> "ValueError", w |-> <<>>]
        ELSE IF OutsideWindow(float(Item(data, 3)), tmin, tmax)
             THEN [st |-> "ok", w |-> line]
        ELSE IF Len(data) < 9 THEN [st |-> "IndexError", w |-> <<>>]
        ELSE IF ~FloatOk(Item(data, 8)) THEN [st |-> "ValueError", w |-> <<>>]
        ELSE IF BelowStrip(float(Item(data, 8)), hard_limit)
             THEN [st |-> "ok", w |-> line]
        ELSE [st |-> "ok", w |-> <<>>]

StripRun(contents, hard_limit, tmin, tmax) ==
    LET r == RunLoop([i \in 1..Len(contents) |->
                         StripIteration(contents[i], hard_limit, tmin, tmax)])
    IN  [st |-> r.st, written |-> r.written, report |-> NoReport]

strip_above(tf_path, output_path, hard_limit, tmin, tmax) ==
    Call("strip_above", tf_path, output_path, <<hard_limit, tmin, tmax>>,
         StripRun(readlines(files, tf_path), hard_limit, tmin, tmax))


(***************************************************************************)
(* Input files: observation rows of 13 tab-separated fields                *)
(* stack, exposure, exposure error, time, time error, x, y, pixel area,    *)
(* flux, flux error, magnitude, magnitude error, filter.                   *)
(***************************************************************************)
ObsFields(time, flux) ==
    << <<Num(1, 1)>>, <<Num(10, 1)>>, <<Num(1, 10)>>, <<Num(time[1], time[2])>>,
       <<Num(1, 100)>>, <<Num(5, 1)>>, <<Num(6, 1)>>, <<Num(9, 1)>>,
       <<Num(flux[1], flux[2])>>, <<Num(1, 2)>>, <<Num(12, 1)>>,
       <<Num(1, 5)>>, <<FilterV>> >>

\* A row as text: "plain" rows end after the filter, "trailing tab" rows
\* have a tab after it (a 14th, empty field).
ObsLine(time, flux, format) ==
    JoinTab(ObsFields(time, flux), 0, 12)
        \o (IF format = "trailing tab" THEN <<TAB>> ELSE <<>>) \o <<NL>>

\* A file of rows; in the format "no final newline" the last row is not
\* terminated.
ObsFile(times, fluxes, format) ==
    [i \in 1..Len(times) |->
        IF format = "no final newline" /\ i = Len(times)
        THEN JoinTab(ObsFields(times[i], fluxes[i]), 0, 12)
        ELSE ObsLine(times[i], fluxes[i], format)]

Formats == {"plain", "trailing tab", "no final newline"}

\* The rows of c with the centroid (data[5], data[6]) at (x, y).
AtCentroid(c, x, y) ==
    [i \in 1..Len(c) |->
        JoinTab([split(c[i]) EXCEPT ![6] = <<Num(x, 1)>>, ![7] = <<Num(y, 1)>>],
                0, Len(split(c[i])) - 1)]

SeqsUpTo(S, n) == UNION {[1..k -> S] : k \in 0..n}

Paths == {"in", "out"}

(***************************************************************************)
(* The chronological normaliser on files of up to MaxLen rows, and on one  *)
(* long night of LongLen rows one second apart.                            *)
(***************************************************************************)
TimeVals == {100, 1300, 86300, 86350}

ConstFlux(n) == [i \in 1..n |-> RInt(10)]

ChronoInputs ==
    {ObsFile([i \in 1..Len(ts) |-> RInt(ts[i])], ConstFlux(Len(ts)), fmt) :
        ts \in SeqsUpTo(TimeVals, MaxLen), fmt \in Formats}

LongInput == ObsFile([i \in 1..LongLen |-> RInt(i)], ConstFlux(LongLen), "plain")

InitChrono ==
    /\ files \in {[p \in {"in"} |-> c] : c \in ChronoInputs}
    /\ last = NoCall
    /\ ncalls = 0

NextChrono ==
    \/ \E tf_path \in DOMAIN files, output_path \in Paths :
          set_initial_time_zero(tf_path, output_path)
    \/ \E tf_path \in DOMAIN files, output_path \in Paths :
          correct_day_transition(tf_path, output_path, 200, 86000)
    \/ \E tf_path \in DOMAIN files, output_path \in Paths :
          sort_by_timestamp(tf_path, output_path)

SpecChrono == InitChrono /\ [][NextChrono]_vars

(***************************************************************************)
(* sort_by_timestamp alone, on the short files and on the long night.      *)
(***************************************************************************)
InitSort ==
    /\ files \in {[p \in {"in"} |-> c] : c \in ChronoInputs \cup {LongInput}}
    /\ last = NoCall
    /\ ncalls = 0

NextSort ==
    \E tf_path \in DOMAIN files, output_path \in Paths :
        sort_by_timestamp(tf_path, output_path)

SpecSort == InitSort /\ [][NextSort]_vars

(***************************************************************************)
(* The outlier filter and the smoother on files of up to MaxLen + 1 rows   *)
(* one second apart.                                                       *)
(***************************************************************************)
FluxVals == {10, 11, 100}

Sigmas == {RInt(1), RInt(3)}

FluxInputs ==
    {ObsFile([i \in 1..Len(fs) |-> RInt(i - 1)],
             [i \in 1..Len(fs) |-> RInt(fs[i])], fmt) :
        fs \in SeqsUpTo(FluxVals, MaxLen + 1),
        fmt \in {"plain", "trailing tab"}}

InitFlux ==
    /\ files \in {[p \in {"in"} |-> c] : c \in FluxInputs}
    /\ last = NoCall
    /\ ncalls = 0

\* The filtered rows go to the other path.
NextOutliers ==
    \E tf_path \in DOMAIN files, sig \in Sigmas :
        \E output_path \in Paths \ {tf_path} :
            correct_outliers(tf_path, output_path, sig)

SpecOutliers == InitFlux /\ [][NextOutliers]_vars

\* threshold: not given (-1), or 1 s, or 2 s; factor: the default 1.025.
Thresholds == {RInt(-1), RInt(1), RInt(2)}

NextSmooth ==
    \E tf_path \in DOMAIN files, output_path \in Paths,
       threshold \in Thresholds :
        smooth(tf_path, output_path, threshold, Rat(1025, 1000))

SpecSmooth == InitFlux /\ [][NextSmooth]_vars


(***************************************************************************)
(* Weather correction: one alternate of up to MaxLen samples in time       *)
(* order, a second alternate of two samples, and a target series.  The     *)
(* target is at the centroid (5, 6), the alternates at (9, 6) and (8, 6).  *)
(* The last target has a record of flux 75, the mean of the fluxes 50 and  *)
(* 100 of the first two samples of an alternate.                           *)
(***************************************************************************)
WeatherTimes == {0, 1, 2, 6}

AltFlux == <<50, 100, 25, 40, 80, 20>>

\* The alternate with samples at 0 and 5, of flux 50 and 100.
WideAlt == <<0, 5>>

AltInputs ==
    {AtCentroid(ObsFile([i \in 1..Len(ts) |-> RInt(ts[i])],
                        [i \in 1..Len(ts) |-> RInt(AltFlux[i])], "plain"),
                9, 6) :
        ts \in {s \in SeqsUpTo(WeatherTimes, MaxLen) :
                    \A i \in 1..Len(s) - 1 : s[i] < s[i + 1]}
                \cup {WideAlt}}

SecondAlt ==
    AtCentroid(ObsFile(<<RInt(0), RInt(2)>>, <<RInt(100), RInt(50)>>, "plain"),
               8, 6)

TargetInputs ==
    {ObsFile(<<RInt(0), RInt(1), RInt(2), RInt(6)>>, ConstFlux(4), "plain"),
     ObsFile(<<Rat(1, 2), RInt(2), RInt(3)>>, ConstFlux(3), "plain"),
     ObsFile(<<Rat(5, 2)>>, ConstFlux(1), "plain"),
     ObsFile(<<RInt(0), Rat(1, 2)>>, <<RInt(10), RInt(75)>>, "plain")}

InitWeather ==
    /\ files \in {[p \in {"alt1", "alt2", "in"} |->
                     IF p = "alt1" THEN a
                     ELSE IF p = "alt2" THEN SecondAlt ELSE t] :
                  a \in AltInputs, t \in TargetInputs}
    /\ last = NoCall
    /\ ncalls = 0

\* gap_threshold: the default 3.0, or 5.0.
GapThresholds == {RInt(3), RInt(5)}

NextWeather ==
    \/ \E tf_paths \in {<<"alt1">>, <<"alt1", "alt2">>} :
          build_weather_database("db", tf_paths)
    \/ \E weighted \in BOOLEAN, gap_threshold \in GapThresholds :
          /\ "db" \in DOMAIN files
          /\ correct_weather("db", "in", "out", weighted, gap_threshold)

SpecWeather == InitWeather /\ [][NextWeather]_vars


(***************************************************************************)
(* Relative photometry: a source and a reference of up to MaxLen rows each *)
(* in time order; the fluxes of a series differ from row to row.           *)
(***************************************************************************)
SourceTimes == {RInt(1), Rat(5, 4), RInt(2), RInt(4)}

ReferenceTimes == {Rat(11, 10), Rat(3, 2), RInt(2), RInt(4)}

SourceFlux == <<10, 20, 40, 80, 160>>

ReferenceFlux == <<1, 2, 3, 4, 5>>

Increasing(S, n) ==
    {s \in SeqsUpTo(S, n) : \A i \in 1..(Len(s) - 1) : RLt(s[i], s[i + 1])}

PhotometryInputs(S, flux) ==
    {ObsFile(ts, [i \in 1..Len(ts) |-> RInt(flux[i])], "plain") :
        ts \in Increasing(S, MaxLen)}

InitPhotometry ==
    /\ files \in {[p \in {"source", "ref"} |-> IF p = "source" THEN s ELSE r] :
                  s \in PhotometryInputs(SourceTimes, SourceFlux),
                  r \in PhotometryInputs(ReferenceTimes, ReferenceFlux)}
    /\ last = NoCall
    /\ ncalls = 0

PhotometryThresholds == {Rat(1, 2), RInt(1)}

NextPhotometry ==
    \E threshold \in PhotometryThresholds :
        relative_photometry(threshold, "source", "ref", "out")

SpecPhotometry == InitPhotometry /\ [][NextPhotometry]_vars


(***************************************************************************)
(* The malformed-row filter on files of up to MaxLen lines: rows of 13     *)
(* fields, rows with a trailing tab, rows with a 14th field of text, rows  *)
(* cut after the 12th field, rows with two trailing tabs, empty lines.     *)
(* The time of a row is its place in the file.                             *)
(***************************************************************************)
Comment == Txt(4)

LineKinds == {"plain", "trailing tab", "extra field", "cut", "two tabs", "blank"}

BrokenLine(time, kind) ==
    IF kind = "blank" THEN <<NL>>
    ELSE IF kind = "cut"
         THEN JoinTab(ObsFields(time, RInt(10)), 0, 11) \o <<NL>>
    ELSE JoinTab(ObsFields(time, RInt(10)), 0, 12)
            \o (CASE kind = "trailing tab" -> <<TAB>>
                  [] kind = "extra field" -> <<TAB, Comment>>
                  [] kind = "two tabs" -> <<TAB, TAB>>
                  [] OTHER -> <<>>)
            \o <<NL>>

BrokenInputs ==
    {[i \in 1..Len(ks) |-> BrokenLine(RInt(i), ks[i])] :
        ks \in SeqsUpTo(LineKinds, MaxLen)}

InitClean ==
    /\ files \in {[p \in {"in"} |-> c] : c \in BrokenInputs}
    /\ last = NoCall
    /\ ncalls = 0

NextClean ==
    \E tf_path \in DOMAIN files, output_path \in Paths :
        clean_broken_lines(tf_path, output_path)

SpecClean == InitClean /\ [][NextClean]_vars

(***************************************************************************)
(* The flux and time limits on files of up to MaxLen rows, with the limits *)
(* strip = 100, tmin = 5, tmax = 10 and with the default limits.           *)
(***************************************************************************)
\* The (time, flux) of a row: before, at the ends of, in and after the
\* window; below, at and above the flux limit.
StripRows == {<<0, 200>>, <<5, 100>>, <<5, 10>>, <<7, 99>>, <<10, 200>>, <<15, 100>>}

StripInputs ==
    {ObsFile([i \in 1..Len(rs) |-> RInt(rs[i][1])],
             [i \in 1..Len(rs) |-> RInt(rs[i][2])], fmt) :
        rs \in SeqsUpTo(StripRows, MaxLen), fmt \in {"plain", "trailing tab"}}

InitStrip ==
    /\ files \in {[p \in {"in"} |-> c] : c \in StripInputs}
    /\ last = NoCall
    /\ ncalls = 0

StripLimits == {<<100, 5, 10>>, <<100000, 0, 100000>>}

\* The filtered rows go to the other path.
NextStrip ==
    \E tf_path \in DOMAIN files, limits \in StripLimits :
        \E output_path \in Paths \ {tf_path} :
            strip_above(tf_path, output_path, RInt(limits[1]),
                        RInt(limits[2]), RInt(limits[3]))

SpecStrip == InitStrip /\ [][NextStrip]_vars


(***************************************************************************)
(* The two cleaning filters one after the other, on files of up to MaxLen  *)
(* lines: rows of 13 fields, rows with the flag "NO SOURCE" in place of    *)
(* the measurements, rows cut after the 12th field.  The output is the     *)
(* input file or another file.                                             *)
(***************************************************************************)
FlaggedLine(time) ==
    JoinTab(ObsFields(time, RInt(10)), 0, 3) \o <<TAB, NoSource, NL>>

CleaningKinds == {"plain", "cut", "flagged"}

CleaningInputs ==
    {[i \in 1..Len(ks) |->
         IF ks[i] = "flagged" THEN FlaggedLine(RInt(i))
         ELSE BrokenLine(RInt(i), ks[i])] :
        ks \in SeqsUpTo(CleaningKinds, MaxLen)}

InitCleaning ==
    /\ files \in {[p \in {"in"} |-> c] : c \in CleaningInputs}
    /\ last = NoCall
    /\ ncalls = 0

NextCleaning ==
    \/ \E tf_path \in DOMAIN files, output_path \in Paths :
          clean_no_source(tf_path, output_path)
    \/ \E tf_path \in DOMAIN files, output_path \in Paths :
          clean_broken_lines(tf_path, output_path)

SpecCleaning == InitCleaning /\ [][NextCleaning]_vars


(***************************************************************************)
(* Vocabulary of the properties.                                           *)
(***************************************************************************)
\* Every line of c is a row: at least 13 fields, the time a number, a
\* newline at its end.
IsSeries(c) ==
    \A i \in 1..Len(c) : RepairParse(c[i]) = "ok" /\ c[i][Len(c[i])] = NL

TimeOf(line) == float(Item(split(line), 3))

TimesOf(c) == [i \in 1..Len(c) |-> TimeOf(c[i])]

\* The day-transition precondition fails at the pair (i, i+1).
GapAt(c, i) == DayTransition(TimeOf(c[i]), TimeOf(c[i + 1]))

HasGap(c) == \E i \in 1..(Len(c) - 1) : GapAt(c, i)

\* The lines the call appended to its output file.
Emitted == CatRange([i \in 1..Len(last.written) |-> Lines(last.written[i])],
                    1, Len(last.written))

Count(s, x) == Cardinality({i \in 1..Len(s) : s[i] = x})

IsPermutation(s, t) ==
    /\ Len(s) = Len(t)
    /\ \A i \in 1..Len(s) : Count(s, s[i]) = Count(t, s[i])

NonDecreasing(ts) == \A i \in 1..(Len(ts) - 1) : RLe(ts[i], ts[i + 1])

\* The pair (i, i+1) is the first wrap past midnight of the times ts.
IsWrap(ts, i) == RGt(ts[i], RInt(86000)) /\ RLt(ts[i + 1], RInt(200))

FirstWrap(ts, i) ==
    /\ i \in 1..(Len(ts) - 1)
    /\ IsWrap(ts, i)
    /\ \A j \in 1..(i - 1) : ~IsWrap(ts, j)

(***************************************************************************)
(* C1.  set_initial_time_zero on a series with a consecutive pair more     *)
(* than 85000 s apart writes no record at all, wherever the pair is.       *)
(***************************************************************************)
C1_NoOutputOnDayTransition ==
    (/\ last.op = "set_initial_time_zero"
     /\ IsSeries(last.input)
     /\ HasGap(last.input))
    => last.written = <<>>

(***************************************************************************)
(* C2.  correct_day_transition run on the output of a previous             *)
(* correct_day_transition reports that there is no transition and writes   *)
(* the times it read.                                                      *)
(***************************************************************************)
\* The call of this step is a repair of the file that the call before it, a
\* repair too, created.
RepairOfRepaired ==
    /\ last.op = "correct_day_transition"
    /\ last.st = "ok"
    /\ IsSeries(last.input)
    /\ last.dst # last.src
    /\ last.dst \in DOMAIN files
    /\ files[last.dst] = Emitted
    /\ last'.op = "correct_day_transition"
    /\ last'.src = last.dst
    /\ ncalls' = ncalls + 1

C2_RepairIdempotent ==
    [][RepairOfRepaired =>
          /\ last'.st = "ok"
          /\ last'.report = <<"No transition detected", 0, 0>>
          /\ Len(last'.written) = Len(last.written)
          /\ \A i \in 1..Len(last.written) :
                TimeOf(last'.written[i]) = TimeOf(last.written[i])]_vars

(***************************************************************************)
(* C3.  correct_day_transition adds 86400 s to the record after the first  *)
(* wrap and to every record that follows it, and leaves the records up to  *)
(* the wrap alone.                                                         *)
(***************************************************************************)
C3_ShiftsFromFirstPastMidnight ==
    \A i \in 1..(Len(last.input) - 1) :
        (/\ last.op = "correct_day_transition"
         /\ IsSeries(last.input)
         /\ FirstWrap(TimesOf(last.input), i))
        => /\ Len(last.written) = Len(last.input)
           /\ \A k \in 1..Len(last.input) :
                 TimeOf(last.written[k]) =
                     IF k <= i THEN TimeOf(last.input[k])
                     ELSE RAdd(TimeOf(last.input[k]), RInt(86400))

(***************************************************************************)
(* C4.  sort_by_timestamp on a series that has no day transition writes    *)
(* the rows of its input, each once, in non-decreasing order of time.      *)
(***************************************************************************)
\* The rows of a file, whether or not the last one is terminated.
Rows(c) == [i \in 1..Len(c) |-> strip(c[i])]

C4_SortedPermutation ==
    (/\ last.op = "sort_by_timestamp"
     /\ IsSeries(last.input)
     /\ ~HasGap(last.input)
     /\ last.input # <<>>)
    => /\ last.st = "ok"
       /\ IsPermutation(Rows(Emitted), Rows(last.input))
       /\ NonDecreasing(TimesOf(Emitted))

(***************************************************************************)
(* C5.  sort_by_timestamp on a series with a consecutive pair more than    *)
(* 85000 s apart reports the day transition and writes no record,          *)
(* wherever the pair is.                                                   *)
(***************************************************************************)
C5_SortRefusesDayTransition ==
    (/\ last.op = "sort_by_timestamp"
     /\ IsSeries(last.input)
     /\ HasGap(last.input))
    => /\ last.st = "day transition"
       /\ last.written = <<>>
       /\ last.report = <<"Warning: day transition", 0, 0>>

\* A sort of three rows whose only offending pair is the last one.
C5_Witness ==
    /\ last.op = "sort_by_timestamp"
    /\ IsSeries(last.input)
    /\ Len(last.input) = 3
    /\ ~GapAt(last.input, 1)
    /\ GapAt(last.input, 2)
    /\ last.written = <<>>

(***************************************************************************)
(* C6.  correct_outliers keeps every record of a series of constant flux   *)
(* (stated for the series of three or more records, for which the mean     *)
(* and the standard deviation of the differences exist).                   *)
(***************************************************************************)
FluxOf(line) == float(Item(split(line), 8))

ConstantFlux(c) == \A i \in 1..Len(c) : FluxOf(c[i]) = FluxOf(c[1])

C6_ConstantFluxAllKept ==
    (/\ last.op = "correct_outliers"
     /\ IsSeries(last.input)
     /\ Len(last.input) >= 3
     /\ ConstantFlux(last.input))
    => /\ last.st = "ok"
       /\ last.written = last.input

(***************************************************************************)
(* C7.  correct_outliers keeps record 0, and keeps record i+1 exactly when *)
(* d[i] = flux[i+1] - flux[i] lies strictly between mean - sigma*stdev and *)
(* mean + sigma*stdev (stdev with N-1); it reports the number of records   *)
(* it rejected.  Times 0,1,2,3 with flux 10,10,10,100 and sigma 1 give the *)
(* records at times 0,1,2.                                                 *)
(***************************************************************************)
\* The differences of the fluxes of c, which are integers here.
FluxDiffs(c) ==
    [i \in 1..(Len(c) - 1) |-> FluxOf(c[i + 1])[1] - FluxOf(c[i])[1]]

IntegerFlux(c) == \A i \in 1..Len(c) : FluxOf(c[i])[2] = 1

RECURSIVE SumTo(_, _)
SumTo(f, n) == IF n = 0 THEN 0 ELSE f[n] + SumTo(f, n - 1)

\* |d[i] - mean| < sigma * stdev for sigma = sig[1]/sig[2] > 0, with
\* mean = S/n and stdev^2 = (n*Q - S^2) / (n*(n-1)), S the sum and Q the sum
\* of the squares of the n differences; both sides multiplied by
\* n^2 * (n-1) * sig[2]^2.
StrictlyInside(ds, i, sig) ==
    LET n == Len(ds)
        S == SumTo(ds, n)
        Q == SumTo([k \in 1..n |-> ds[k] * ds[k]], n)
    IN  (n * ds[i] - S) * (n * ds[i] - S) * (n - 1) * sig[2] * sig[2]
            < sig[1] * sig[1] * n * (n * Q - S * S)

\* The indices of the records that the rule keeps.
KeptRecords(c, sig) ==
    {1} \cup {i + 1 : i \in {k \in 1..(Len(c) - 1) :
                                StrictlyInside(FluxDiffs(c), k, sig)}}

\* s holds the elements of c at the indices of K, in order.
IsSelection(s, c, K) ==
    /\ Len(s) = Cardinality(K)
    /\ \A k \in K : s[Cardinality({j \in K : j <= k})] = c[k]

JumpExample ==
    ObsFile(<<RInt(0), RInt(1), RInt(2), RInt(3)>>,
            <<RInt(10), RInt(10), RInt(10), RInt(100)>>, "plain")

C8_SmoothLength ==
    (/\ last.op = "smooth"
     /\ IsSeries(last.input))
    => /\ last.st = "ok"
       /\ Len(last.written) =
              IF Len(last.input) >= 3 THEN Len(last.input) - 2 ELSE 0

(***************************************************************************)
(* C9.  smooth reports as kept the number of records it wrote, the first   *)
(* smoothed record included, and the reduction in percent of that count.   *)
(***************************************************************************)
C9_ReportedCountIsEmitted ==
    (/\ last.op = "smooth"
     /\ IsSeries(last.input)
     /\ Len(last.input) >= 3
     /\ last.src # last.dst)
    => /\ last.report[1] = "The smooth file contains"
       /\ last.report[2] = Len(last.written)
       /\ last.report[3] =
              Format(Rat(100 * (Len(last.input) - Len(last.written)),
                         Len(last.input)), 1)[1]

(***************************************************************************)
(* C10.  correct_weather, unweighted, with one alternate in the database   *)
(* whose sample times increase, and a target record whose time equals the  *)
(* sample time t_i of the alternate.                                       *)
(***************************************************************************)
\* The database holds one alternate (no separator line) of increasing times.
SampleTime(db, i) == float(Item(split(db[i]), 0))

SampleFactor(db, i) == float(Item(split(db[i]), 4))

OneAlternate(db) ==
    /\ \A i \in 1..Len(db) :
          FloatsStatus(split(db[i]), <<0, 1, 2, 3, 4>>) = "ok"
    /\ \A i \in 1..(Len(db) - 1) : RLt(SampleTime(db, i), SampleTime(db, i + 1))

DistinctTimes(c) ==
    \A i, j \in 1..Len(c) : TimeOf(c[i]) = TimeOf(c[j]) => i = j

\* The written line w is the record line with flux and flux error times f.
CorrectedWith(w, line, f) ==
    /\ Len(split(w)) = 10
    /\ \A k \in 0..7 : Item(split(w), k) = Item(split(line), k)
    /\ float(Item(split(w), 8)) = RMul(f, FluxOf(line))
    /\ float(Item(split(w), 9)) = RMul(f, float(Item(split(line), 9)))

WrittenAt(t) == {k \in 1..Len(last.written) : TimeOf(last.written[k]) = t}

UnweightedOneAlternate ==
    /\ last.op = "correct_weather"
    /\ last.arg[2] = FALSE
    /\ OneAlternate(last.arg[1])
    /\ IsSeries(last.input)
    /\ DistinctTimes(last.input)

\* The sample i is followed by a sample within gap_threshold.
OpensBracket(db, i, gap_threshold) ==
    /\ i < Len(db)
    /\ RLe(RSub(SampleTime(db, i + 1), SampleTime(db, i)), gap_threshold)

\* C10 as stated: at the time of any sample, the last one included, the
\* record is corrected with the factor of that sample.
C10_ExactAtEverySample ==
    UnweightedOneAlternate =>
        \A j \in 1..Len(last.input), i \in 1..Len(last.arg[1]) :
            TimeOf(last.input[j]) = SampleTime(last.arg[1], i)
            => \E k \in 1..Len(last.written) :
                  CorrectedWith(last.written[k], last.input[j],
                                SampleFactor(last.arg[1], i))

\* C10 amended: at the time of a sample that is followed by a sample
\* within gap_threshold the record is written once, corrected with exactly
\* the factor of that sample; at the time of the last sample, or of a
\* sample followed by a longer gap, the record is not written.
C10_ExactAtSampleOpeningBracket ==
    UnweightedOneAlternate =>
        /\ last.st = "ok"
        /\ \A j \in 1..Len(last.input), i \in 1..Len(last.arg[1]) :
              TimeOf(last.input[j]) = SampleTime(last.arg[1], i)
              => IF OpensBracket(last.arg[1], i, last.arg[3])
                 THEN /\ Cardinality(WrittenAt(TimeOf(last.input[j]))) = 1
                      /\ \A k \in WrittenAt(TimeOf(last.input[j])) :
                            CorrectedWith(last.written[k], last.input[j],
                                          SampleFactor(last.arg[1], i))
                 ELSE WrittenAt(TimeOf(last.input[j])) = {}

\* Three samples at 0, 1, 2 and records at those times: the records at 0 and
\* at 1 are written, the record at the time of the last sample is not.
C10_Witness ==
    /\ UnweightedOneAlternate
    /\ Len(last.arg[1]) = 3
    /\ \A i \in 1..3 : SampleTime(last.arg[1], i) = RInt(i - 1)
    /\ SampleFactor(last.arg[1], 1) # SampleFactor(last.arg[1], 2)
    /\ \A i \in 1..3 : TimeOf(last.input[i]) = RInt(i - 1)
    /\ WrittenAt(RInt(0)) # {}
    /\ WrittenAt(RInt(1)) # {}
    /\ WrittenAt(RInt(2)) = {}

(***************************************************************************)
(* C11.  The scenario of one alternate with samples at 0 and 5 of flux 50  *)
(* and 100 (factors 2 and 1) and a target record at 2.5 of flux 10,        *)
(* corrected unweighted.                                                   *)
(***************************************************************************)
WideScenario ==
    /\ last.op = "correct_weather"
    /\ last.arg[2] = FALSE
    /\ OneAlternate(last.arg[1])
    /\ Len(last.arg[1]) = 2
    /\ SampleTime(last.arg[1], 1) = RInt(0)
    /\ SampleTime(last.arg[1], 2) = RInt(5)
    /\ float(Item(split(last.arg[1][1]), 3)) = RInt(50)
    /\ float(Item(split(last.arg[1][2]), 3)) = RInt(100)
    /\ SampleFactor(last.arg[1], 1) = RInt(2)
    /\ SampleFactor(last.arg[1], 2) = RInt(1)
    /\ IsSeries(last.input)
    /\ Len(last.input) = 1
    /\ TimeOf(last.input[1]) = Rat(5, 2)
    /\ FluxOf(last.input[1]) = RInt(10)

\* The record is written once, with the flux 15 (factor 3/2).
WideCorrected ==
    /\ last.st = "ok"
    /\ Len(last.written) = 1
    /\ CorrectedWith(last.written[1], last.input[1], Rat(3, 2))
    /\ float(Item(split(last.written[1]), 8)) = RInt(15)

\* C11 as stated: with the default gap_threshold 3.0 the record is written
\* with the flux 15.
C11_ScenarioAtDefault ==
    (WideScenario /\ last.arg[3] = RInt(3)) => WideCorrected

\* C11 amended: the record is written with the flux 15 when gap_threshold
\* is 5.0 (the width of the bracket); with the default 3.0 it is dropped.
C11_ScenarioAtGapFive ==
    /\ (WideScenario /\ last.arg[3] = RInt(5)) => WideCorrected
    /\ (WideScenario /\ last.arg[3] = RInt(3))
       => last.st = "ok" /\ last.written = <<>>

C11_Witness ==
    /\ WideScenario
    /\ last.arg[3] = RInt(5)
    /\ WideCorrected

(***************************************************************************)
(* C12.  correct_weather, weighted: the factor of a record is the sum of   *)
(* the interpolated factors of the contributing alternates, each weighted  *)
(* by 1/distance and divided by the sum of the weights, where distance is  *)
(* the Euclidean distance between the centroid (x, y) of the record and    *)
(* the midpoint of the centroids of the two samples of the bracket.        *)
(***************************************************************************)
DatabaseReads(db) == \A i \in 1..Len(db) : DbParse(db[i]) = "ok"

\* The distance between the centroid of the record and the midpoint of the
\* centroids alt[1], alt[2] of the bracket (i, i+1), i from 0.
CentroidDistance(alt, i, line) ==
    LET x == RDiv(RAdd(Item(Item(alt, 1), i), Item(Item(alt, 1), i + 1)),
                  RInt(2))
        y == RDiv(RAdd(Item(Item(alt, 2), i), Item(Item(alt, 2), i + 1)),
                  RInt(2))
        dx == RSub(float(Item(split(line), 5)), x)
        dy == RSub(float(Item(split(line), 6)), y)
    IN  Root(RAdd(RMul(dx, dx), RMul(dy, dy)))

\* The alternates that have a bracket within gap_threshold at the time t.
BracketsAt(db, t, gap_threshold) ==
    [a \in 1..Len(AltsFrom(db, 1)) |->
        BracketOf(AltsFrom(db, 1)[a], t, gap_threshold)]

ContributingAt(db, t, gap_threshold) ==
    {a \in 1..Len(AltsFrom(db, 1)) : BracketsAt(db, t, gap_threshold)[a] >= 0}

RECURSIVE RSumOver(_, _)
RSumOver(f, S) ==
    IF S = {} THEN RInt(0)
    ELSE LET a == CHOOSE a \in S : TRUE
         IN  RAdd(f[a], RSumOver(f, S \ {a}))

CentroidWeightedFactor(db, line, gap_threshold) ==
    LET alts == AltsFrom(db, 1)
        t == TimeOf(line)
        at == BracketsAt(db, t, gap_threshold)
        used == ContributingAt(db, t, gap_threshold)
        w == [a \in used |->
                 RDiv(RInt(1), CentroidDistance(alts[a], at[a], line))]
        wf == [a \in used |->
                  RMul(w[a], Interpolate(alts[a], at[a], t))]
    IN  RDiv(RSumOver(wf, used), RSumOver(w, used))

C12_WeightedByCentroidDistance ==
    (/\ last.op = "correct_weather"
     /\ last.arg[2] = TRUE
     /\ DatabaseReads(last.arg[1])
     /\ IsSeries(last.input))
    => \A j \in 1..Len(last.input) :
          ContributingAt(last.arg[1], TimeOf(last.input[j]), last.arg[3]) # {}
          => \E k \in 1..Len(last.written) :
                CorrectedWith(last.written[k], last.input[j],
                    CentroidWeightedFactor(last.arg[1], last.input[j],
                                           last.arg[3]))


(***************************************************************************)
(* C13.  Every record that correct_weather writes is a record of the       *)
(* input with its 13 fields, of which only the flux and the flux error     *)
(* are changed, both multiplied by the same factor.                        *)
(***************************************************************************)
\* The fields other than the flux data[8] and the flux error data[9].
PassedFields == (0..12) \ {8, 9}

IsCorrectionOf(w, line) ==
    /\ Len(split(w)) = 13
    /\ \A k \in PassedFields : Item(split(w), k) = Item(split(line), k)
    /\ FloatOk(Item(split(w), 8))
    /\ FloatOk(Item(split(w), 9))
    /\ RMul(float(Item(split(w), 8)), float(Item(split(line), 9)))
           = RMul(float(Item(split(w), 9)), FluxOf(line))

C13_OtherFieldsPassThrough ==
    (/\ last.op = "correct_weather"
     /\ DatabaseReads(last.arg[1])
     /\ IsSeries(last.input))
    => \A k \in 1..Len(last.written) :
          \E j \in 1..Len(last.input) :
              IsCorrectionOf(last.written[k], last.input[j])


(***************************************************************************)
(* C14.  correct_weather drops a record exactly when no alternate has a    *)
(* bracket t_i <= t_j < t_{i+1} with t_{i+1} - t_i <= gap_threshold at its *)
(* time; the other records are written once, in the order of the input.    *)
(***************************************************************************)
\* The sample times of every alternate of the database increase.
IncreasingAlternates(db) ==
    \A a \in 1..Len(AltsFrom(db, 1)) :
        \A i \in 1..(Len(AltsFrom(db, 1)[a][1]) - 1) :
            RLt(AltsFrom(db, 1)[a][1][i], AltsFrom(db, 1)[a][1][i + 1])

\* The sample times ts have a bracket ts[i] <= t < ts[i+1] that is not
\* longer than gap_threshold.
HasBracket(ts, t, gap_threshold) ==
    \E i \in 1..(Len(ts) - 1) :
        /\ RLe(ts[i], t)
        /\ RLt(t, ts[i + 1])
        /\ RLe(RSub(ts[i + 1], ts[i]), gap_threshold)

\* The indices of the records of the input at whose time an alternate
\* contributes.
Corrigible ==
    {j \in 1..Len(last.input) :
        \E a \in 1..Len(AltsFrom(last.arg[1], 1)) :
            HasBracket(AltsFrom(last.arg[1], 1)[a][1], TimeOf(last.input[j]),
                       last.arg[3])}

\* The weighted mode divides by the distance it computes, between the pair
\* (data[6], data[8]) of the record and the means of alt[2] and alt[3] over
\* the bracket: the distance is zero when both pairs are equal.
ZeroDistance(alt, i, line) ==
    /\ RAdd(Item(Item(alt, 2), i), Item(Item(alt, 2), i + 1))
           = RMul(RInt(2), float(Item(split(line), 6)))
    /\ RAdd(Item(Item(alt, 3), i), Item(Item(alt, 3), i + 1))
           = RMul(RInt(2), FluxOf(line))

\* The records at which the weighted mode divides by zero.
Undivisible ==
    {j \in Corrigible :
        \E a \in ContributingAt(last.arg[1], TimeOf(last.input[j]),
                                last.arg[3]) :
            ZeroDistance(AltsFrom(last.arg[1], 1)[a],
                         BracketsAt(last.arg[1], TimeOf(last.input[j]),
                                    last.arg[3])[a],
                         last.input[j])}

\* The written lines are at the times of the records of J, in order.
WrittenAreRecords(J) ==
    /\ Len(last.written) = Cardinality(J)
    /\ \A j \in J :
          TimeOf(last.written[Cardinality({i \in J : i <= j})])
              = TimeOf(last.input[j])

WeatherCallOnSeries ==
    /\ last.op = "correct_weather"
    /\ DatabaseReads(last.arg[1])
    /\ IncreasingAlternates(last.arg[1])
    /\ IsSeries(last.input)
    /\ DistinctTimes(last.input)

PhotometryCall ==
    /\ last.op = "relative_photometry"
    /\ IsSeries(last.input)
    /\ IsSeries(last.arg[2])

ErrorOf(line) == float(Item(split(line), 9))

\* The compared pairs (from 0) whose times are closer than the threshold.
ClosePairs ==
    SelectSeq(Compare(TimesOf(last.input), TimesOf(last.arg[2]), 0, 0, 0).pairs,
              LAMBDA p :
                  LET d == RSub(TimeOf(last.input[p[1] + 1]),
                                TimeOf(last.arg[2][p[2] + 1]))
                  IN  RLt(d, last.arg[1]) /\ RLt(RSub(RInt(0), d), last.arg[1]))

\* w is the record of the source line s and the reference line r.
IsDifferenceOf(w, s, r) ==
    /\ Len(split(w)) = 10
    /\ \A k \in 0..7 : float(Item(split(w), k)) = float(Item(split(s), k))
    /\ FluxOf(w) = RSub(FluxOf(s), FluxOf(r))
    /\ ErrorOf(w) = RAdd(ErrorOf(s), ErrorOf(r))

PhotometryExample ==
    /\ PhotometryCall
    /\ TimesOf(last.input) = <<RInt(1), RInt(2)>>
    /\ TimesOf(last.arg[2]) = <<Rat(11, 10)>>
    /\ last.arg[1] = Rat(1, 2)

C15_EmitsClosePairs ==
    /\ PhotometryCall =>
          /\ Len(last.written) = Len(ClosePairs)
          /\ \A k \in 1..Len(ClosePairs) :
                IsDifferenceOf(last.written[k],
                               last.input[ClosePairs[k][1] + 1],
                               last.arg[2][ClosePairs[k][2] + 1])
    /\ PhotometryExample =>
          /\ Len(last.written) = 1
          /\ TimeOf(last.written[1]) = RInt(1)

C15_Witness ==
    /\ PhotometryExample
    /\ last.st = "ok"
    /\ Len(last.written) = 1
    /\ IsDifferenceOf(last.written[1], last.input[1], last.arg[2][1])

(***************************************************************************)
(* C16.  relative_photometry ends normally on two non-empty series in time *)
(* order: no pointer is read past the last index of its series.            *)
(***************************************************************************)
C16_PointersStayInRange ==
    (/\ PhotometryCall
     /\ last.input # <<>>
     /\ last.arg[2] # <<>>
     /\ NonDecreasing(TimesOf(last.input))
     /\ NonDecreasing(TimesOf(last.arg[2])))
    => last.st = "ok"

(***************************************************************************)
(* C17.  The source points that relative_photometry matches with one       *)
(* reference point.                                                        *)
(***************************************************************************)
\* The written records of the source record j and the reference record a.
RecordsOf(j, a) ==
    {k \in 1..Len(last.written) :
        IsDifferenceOf(last.written[k], last.input[j], last.arg[2][a])}

\* A record tells the pair it was written for.
PairsTellApart ==
    \A j1, j2 \in 1..Len(last.input), a1, a2 \in 1..Len(last.arg[2]) :
        (/\ TimeOf(last.input[j1]) = TimeOf(last.input[j2])
         /\ RSub(FluxOf(last.input[j1]), FluxOf(last.arg[2][a1]))
                = RSub(FluxOf(last.input[j2]), FluxOf(last.arg[2][a2])))
        => j1 = j2 /\ a1 = a2

MatchedWith(a) == {j \in 1..Len(last.input) : RecordsOf(j, a) # {}}

FieldCount(line) == 1 + Cardinality({i \in 1..Len(line) : line[i] = TAB})

\* The text after the last tab of the line, without its newline.
LastField(line) ==
    LET tabs == {i \in 1..Len(line) : line[i] = TAB}
        from == IF tabs = {} THEN 1
                ELSE 1 + CHOOSE i \in tabs : \A j \in tabs : j <= i
    IN  SelectSeq(SubSeq(line, from, Len(line)), LAMBDA c : c # NL)

WellFormed(line) ==
    \/ FieldCount(line) = 13
    \/ FieldCount(line) = 14 /\ LastField(line) = <<>>

\* C18 as stated: the written rows are the well-formed rows of the input,
\* in its order.
C18_OnlyWellFormedSurvive ==
    last.op = "clean_broken_lines"
    => /\ last.st = "ok"
       /\ \A k \in 1..Len(last.written) : WellFormed(last.written[k])
       /\ \E kept \in SUBSET (1..Len(last.input)) :
             last.written = SelectSeq([i \in 1..Len(last.input) |->
                                          IF i \in kept THEN last.input[i]
                                          ELSE <<>>], NonEmpty)

\* C18 amended: the written rows are the rows of the input with 13 or 14
\* fields, in its order, whatever the 14th field is.
C18_Only13Or14FieldsSurvive ==
    last.op = "clean_broken_lines"
    => /\ last.st = "ok"
       /\ last.written = SelectSeq(last.input,
                                   LAMBDA line : FieldCount(line) \in {13, 14})

\* Two rows survive of a file that has a row of 14 fields with text in the
\* 14th and a row of 12 or 15 fields.
C18_Witness ==
    /\ last.op = "clean_broken_lines"
    /\ Len(last.written) = 2
    /\ \E k \in 1..2 : FieldCount(last.written[k]) = 14
                          /\ LastField(last.written[k]) # <<>>
    /\ \E i \in 1..Len(last.input) : FieldCount(last.input[i]) \in {12, 15}

C20_ZeroBased ==
    (/\ last.op = "set_initial_time_zero"
     /\ IsSeries(last.input)
     /\ last.input # <<>>
     /\ ~HasGap(last.input))
    => /\ last.st = "ok"
       /\ Len(Emitted) = Len(last.input)
       /\ TimeOf(Emitted[1]) = RInt(0)
       /\ \A i \in 1..Len(last.input) :
             TimeOf(Emitted[i])
                 = RSub(TimeOf(last.input[i]), TimeOf(last.input[1]))


(***************************************************************************)
(* C21.  After a build_weather_database call that ends normally, the       *)
(* database file, read as correct_weather reads it, holds the alternates   *)
(* of the files of that call and no other: one alternate per file, in the  *)
(* order of tf_paths, with the times, centroids and fluxes of its rows.    *)
(***************************************************************************)
\* The alternate of a file of rows: its times, centroids x, y and fluxes.
SeriesOf(contents_alt) ==
    [k \in 1..4 |-> [i \in 1..Len(contents_alt) |->
        float(Item(split(contents_alt[i]), <<3, 5, 6, 8>>[k]))]]

\* The alternates that correct_weather reads from the database, without
\* their factors.
PersistedSeries(db) ==
    [n \in 1..Len(AltsFrom(db, 1)) |-> SubSeq(AltsFrom(db, 1)[n], 1, 4)]

BuildCall ==
    /\ last.op = "build_weather_database"
    /\ last.st = "ok"
    /\ \A n \in 1..Len(last.input) : IsSeries(last.input[n])
    /\ last.dst \in DOMAIN files

C21_DatabaseIsLastBuild ==
    BuildCall
    => PersistedSeries(files[last.dst])
           = [n \in 1..Len(last.input) |-> SeriesOf(last.input[n])]


(***************************************************************************)
(* C22.  After a call of a cleaning stage the input file is as it was and  *)
(* the output file holds the transformed records of that call and nothing  *)
(* else: no record of an earlier call, nothing that was in the output file *)
(* before, also when the output file is the input file.                    *)
(***************************************************************************)
Flagged(line) == \E i \in 1..Len(line) : line[i] = NoSource

\* The records that the stage of the last call makes of its input.
Transformed ==
    SelectSeq(last.input,
              LAMBDA line : IF last.op = "clean_no_source" THEN ~Flagged(line)
                            ELSE FieldCount(line) \in {13, 14})

CleaningCall == last.op \in {"clean_no_source", "clean_broken_lines"}

ContentOf(path) == IF path \in DOMAIN files THEN files[path] ELSE <<>>

C22_OutputIsThisCallOnly ==
    CleaningCall
    => /\ ContentOf(last.dst) = Transformed
       /\ last.dst # last.src => ContentOf(last.src) = last.input


(***************************************************************************)
(* C23.  correct_day_transition on a series with one wrap past midnight,   *)
(* whose times increase by no more than 85000 s at every other pair,       *)
(* writes a series without a consecutive pair more than 85000 s apart, and *)
(* set_initial_time_zero and sort_by_timestamp on the file it created do   *)
(* not report a day transition.                                            *)
(***************************************************************************)
OneWrap(c) ==
    /\ Cardinality({i \in 1..(Len(c) - 1) : IsWrap(TimesOf(c), i)}) = 1
    /\ \A i \in 1..(Len(c) - 1) :
          ~IsWrap(TimesOf(c), i)
          => RLt(TimeOf(c[i]), TimeOf(c[i + 1])) /\ ~GapAt(c, i)

\* The last call repaired a series with one wrap and created its output.
RepairedOneWrap ==
    /\ last.op = "correct_day_transition"
    /\ last.st = "ok"
    /\ IsSeries(last.input)
    /\ OneWrap(last.input)
    /\ last.dst # last.src
    /\ last.dst \in DOMAIN files
    /\ files[last.dst] = Emitted

\* The call of this step normalises the file of the last call.
NormalisesRepaired ==
    /\ last'.op \in {"set_initial_time_zero", "sort_by_timestamp"}
    /\ last'.src = last.dst
    /\ ncalls' = ncalls + 1

C23_RepairEnablesNormalisation ==
    [][RepairedOneWrap =>
          /\ ~HasGap(last.written)
          /\ NormalisesRepaired => last'.st # "day transition"]_vars


(***************************************************************************)
(* C24.  relative_photometry on a source and a reference with the same     *)
(* strictly increasing times, of one record or more, ends normally and     *)
(* writes one record for every source record, the last one included.       *)
(***************************************************************************)
StrictlyIncreasing(ts) == \A i \in 1..(Len(ts) - 1) : RLt(ts[i], ts[i + 1])

AlignedCall ==
    /\ PhotometryCall
    /\ last.input # <<>>
    /\ TimesOf(last.input) = TimesOf(last.arg[2])
    /\ StrictlyIncreasing(TimesOf(last.input))
    /\ RLt(RInt(0), last.arg[1])

C24_EverySourceRecordOnce ==
    AlignedCall
    => /\ last.st = "ok"
       /\ Len(last.written) = Len(last.input)
       /\ \A k \in 1..Len(last.input) :
             IsDifferenceOf(last.written[k], last.input[k], last.arg[2][k])

(***************************************************************************)
(* C25.  relative_photometry on two series in time order writes at most    *)
(* one record for a source record: the times of the written records are    *)
(* strictly increasing when the source times are.                          *)
(***************************************************************************)
C25_OneRecordPerSourceRecord ==
    (/\ PhotometryCall
     /\ StrictlyIncreasing(TimesOf(last.input))
     /\ NonDecreasing(TimesOf(last.arg[2])))
    => /\ \A j \in 1..Len(last.input) :
             Cardinality({k \in 1..Len(last.written) :
                 TimeOf(last.written[k]) = TimeOf(last.input[j])}) <= 1
       /\ StrictlyIncreasing(TimesOf(last.written))


\* The reference records closer than the threshold to the source record j.
CloseReferences(j) ==
    {a \in 1..Len(last.arg[2]) :
        LET d == RSub(TimeOf(last.input[j]), TimeOf(last.arg[2][a]))
        IN  RLt(d, last.arg[1]) /\ RLt(RSub(RInt(0), d), last.arg[1])}

\* C25 amended: a source record is written at most once for each reference
\* record closer to it than the threshold, and the times of the written
\* records never decrease (they can repeat).
C25_OneRecordPerCloseReference ==
    (/\ PhotometryCall
     /\ StrictlyIncreasing(TimesOf(last.input))
     /\ NonDecreasing(TimesOf(last.arg[2])))
    => /\ \A j \in 1..Len(last.input) :
             Cardinality({k \in 1..Len(last.written) :
                 TimeOf(last.written[k]) = TimeOf(last.input[j])})
                 <= Cardinality(CloseReferences(j))
       /\ NonDecreasing(TimesOf(last.written))

\* A call that ends normally and has written two records of one source
\* record, and a record of a later one.
C25_Witness ==
    /\ PhotometryCall
    /\ last.st = "ok"
    /\ \E k \in 1..(Len(last.written) - 2) :
          /\ TimeOf(last.written[k]) = TimeOf(last.written[k + 1])
          /\ RLt(TimeOf(last.written[k + 1]), TimeOf(last.written[k + 2]))


====
